---- MODULE Spec2Model ----
(***************************************************************************)
(* Model of the visual-to-code backend: the generate-code route of the     *)
(* Gemini server (src/backend/server.js) and of the OpenAI variant of the  *)
(* server (src/frontend/src/App.jsx, lines 494-693).                       *)
(*                                                                         *)
(* JavaScript strings are sequences of text tokens, so that concatenation  *)
(* is \o, the empty string is <<>> and two strings are equal exactly when  *)
(* their token sequences are equal.  Keys (framework, feature ids, model   *)
(* names) are single tokens.                                               *)
(***************************************************************************)
EXTENDS Integers, Sequences, FiniteSets, Bags

\* ------------------------------------------------------------------ bounds

\* longest feature list a request carries
MaxFeatures == 2

\* ------------------------------------------------------ JavaScript values

\* a JavaScript string value
Str(s) == [type |-> "string", val |-> s]

\* the value of a missing property
Undefined == [type |-> "undefined", val |-> <<>>]

\* a function inherited from Object.prototype; val is its String() form
NativeFunction == [type |-> "function", val |-> <<"function () { [native code] }">>]

\* property names every object literal inherits from Object.prototype
ObjectPrototypeKeys == {"constructor", "toString", "hasOwnProperty"}

\* table[key] on an object literal whose own properties are one-token strings:
\* the own property, else the inherited one, else undefined
Get(table, key) ==
  IF key \in DOMAIN table THEN Str(<<table[key]>>)
  ELSE IF key \in ObjectPrototypeKeys THEN NativeFunction
  ELSE Undefined

\* ToBoolean: undefined and '' are falsy
Truthy(v) == v.type = "function" \/ (v.type = "string" /\ v.val # <<>>)

\* a || b
Or(a, b) == IF Truthy(a) THEN a ELSE b

\* String(v), as a template literal or Array.prototype.join applies it
StringOf(v) == IF v.type = "undefined" THEN <<"undefined">> ELSE v.val

\* JSON.stringify keeps a property only if its value is serialisable
Serialisable(v) == v.type = "string"

\* ------------------------------------------------------------------ JSON

RECURSIVE JoinTokens(_, _)
\* the elements of a list of tokens separated by sep
JoinTokens(l, sep) ==
  IF l = <<>> THEN <<>>
  ELSE IF Len(l) = 1 THEN <<l[1]>>
  ELSE <<l[1], sep>> \o JoinTokens(Tail(l), sep)

\* JSON.stringify of an array of strings
JSONstringify(l) == <<"[">> \o JoinTokens(l, ",") \o <<"]">>

JSONPunctuation == {"[", "]", ",", "{", "}"}

\* the tokens between the brackets are item, comma, item, ...
ArrayBody(t) ==
  \/ t = <<>>
  \/ /\ Len(t) % 2 = 1
     /\ \A i \in 1..Len(t) :
          IF i % 2 = 1 THEN t[i] \notin JSONPunctuation ELSE t[i] = ","

\* JSON.parse: ok = FALSE is a thrown SyntaxError
JSONparse(raw) ==
  IF raw = <<"{", "}">> THEN [ok |-> TRUE, kind |-> "object", items |-> <<>>]
  ELSE IF raw = <<"null">> THEN [ok |-> TRUE, kind |-> "null", items |-> <<>>]
  ELSE IF /\ Len(raw) >= 2
          /\ raw[1] = "["
          /\ raw[Len(raw)] = "]"
          /\ ArrayBody(SubSeq(raw, 2, Len(raw) - 1))
       THEN LET body == SubSeq(raw, 2, Len(raw) - 1)
            IN  [ok |-> TRUE, kind |-> "array",
                 items |-> [i \in 1..((Len(body) + 1) \div 2) |-> body[2 * i - 1]]]
  ELSE [ok |-> FALSE, kind |-> "none", items |-> <<>>]

\* ------------------------------------------------------- upload (multer)

\* the fileSize limit of the upload middleware, in MiB
FileSizeLimitMiB == 10

\* file.mimetype.startsWith('image/'); a MIME type is <<type, subtype>>
IsImageMimetype(mimetype) == mimetype[1] = "image"

\* the outcome of upload.single('image') on an uploaded file: a file part in
\* a field other than 'image' is refused first, then the fileFilter runs as
\* the file part starts, and the size limit applies while its bytes stream in
MulterStorage(file) ==
  IF file.fieldname # "image"
    THEN [error |-> "MulterError", code |-> "LIMIT_UNEXPECTED_FILE",
          message |-> "Unexpected field"]
  ELSE IF ~IsImageMimetype(file.mimetype)
    THEN [error |-> "Error", code |-> "none", message |-> "Only image files are allowed!"]
  ELSE IF file.sizeMiB > FileSizeLimitMiB
    THEN [error |-> "MulterError", code |-> "LIMIT_FILE_SIZE", message |-> "File too large"]
  ELSE [error |-> "none", code |-> "none", message |-> ""]

\* fileToGenerativePart(buffer, mimeType)
fileToGenerativePart(buffer, mimeType) ==
  [inlineData |-> [data |-> <<"base64", buffer>>, mimeType |-> mimeType]]

\* ---------------------------------------------------- express middleware

\* the layers of the Gemini app in the order app.use / app.post add them
GeminiStack ==
  <<"cors", "json", "urlencoded", "errorMiddleware", "generate-code", "health",
    "test-gemini">>

\* the layers of the OpenAI variant: it registers no error middleware
OpenAIStack == <<"cors", "json", "urlencoded", "generate-code", "health", "test">>

AppStack(variant) == IF variant = "gemini" THEN GeminiStack ELSE OpenAIStack

\* position of a layer in a stack
LayerIndex(stack, layer) == CHOOSE i \in 1..Len(stack) : stack[i] = layer

\* app.use((error, req, res, next) => ...) of the Gemini server
ErrorMiddleware(err) ==
  IF err.error = "MulterError" /\ err.code = "LIMIT_FILE_SIZE"
    THEN [status |-> 400,
          body |-> [error |-> "File too large. Maximum size is 10MB."]]
    ELSE [status |-> 500, body |-> [error |-> err.message]]

\* express's built-in final handler: err.status is unset, so 500 and an
\* error page that is no JSON body
DefaultErrorHandler(err) ==
  [status |-> 500, body |-> [page |-> "Internal Server Error"]]

\* next(err) raised in the layer at index from: express hands the error to
\* the first error-handling layer found after that index, else to the final
\* handler
DispatchError(variant, from, err) ==
  IF \E i \in (from + 1)..Len(AppStack(variant)) :
       AppStack(variant)[i] = "errorMiddleware"
    THEN ErrorMiddleware(err)
    ELSE DefaultErrorHandler(err)

\* ------------------------------------------- generate-code: pure helpers

AVAILABLE_MODELS == <<"gemini-pro", "gemini-1.0-pro">>

frameworkPrompts ==
  [html |-> "Generate clean, semantic HTML and CSS. Use modern CSS with Flexbox/Grid. Make it responsive and accessible.",
   tailwind |-> "Generate HTML with Tailwind CSS classes. Make it responsive and use proper Tailwind utility classes. Include the necessary Tailwind CSS CDN link in the head.",
   react |-> "Generate a React functional component with JSX. Use modern React practices and functional components. Include any necessary imports.",
   vue |-> "Generate a Vue single-file component with template, script, and style sections."]

featurePrompts ==
  [responsive |-> "Ensure the design is fully responsive and works on mobile, tablet, and desktop.",
   accessible |-> "Include proper ARIA labels, semantic HTML, and accessibility features.",
   interactive |-> "Add appropriate hover states, focus states, and interactive elements where needed.",
   modern |-> "Use modern CSS features like Flexbox/Grid and best practices."]

\* the fixed text of the prompt template around its two substitutions
PromptPreamble ==
  "You are an expert frontend developer. Convert the provided UI design to clean, production-ready code."

PromptLineBreak == "<line break and indent>"

PromptGuidelines ==
  "IMPORTANT GUIDELINES: 1. ... 10. If using Tailwind, include the CDN link. Return only the code without any explanations or markdown formatting."

RECURSIVE JoinStrings(_, _)
\* Array.prototype.join on a list of values: String() of each, sep between
JoinStrings(l, sep) ==
  IF l = <<>> THEN <<>>
  ELSE IF Len(l) = 1 THEN StringOf(l[1])
  ELSE StringOf(l[1]) \o sep \o JoinStrings(Tail(l), sep)

\* featureList.map(feature => featurePrompts[feature] || '').join(' ')
featureText(featureList) ==
  JoinStrings([i \in 1..Len(featureList) |->
                 Or(Get(featurePrompts, featureList[i]), Str(<<>>))],
              <<" ">>)

\* the prompt template literal of the handler
prompt(framework, featureList) ==
  <<PromptLineBreak, PromptPreamble, PromptLineBreak>>
    \o StringOf(Get(frameworkPrompts, framework))
    \o <<PromptLineBreak>>
    \o featureText(featureList)
    \o <<PromptLineBreak, PromptGuidelines, PromptLineBreak>>

\* the text-only prompt: the prompt, then the request for a generic component
textPrompt(framework, featureList) ==
  <<PromptLineBreak>> \o prompt(framework, featureList)
    \o <<"Since I cannot process the image directly, please generate a generic ",
         framework, " component that includes: ... Make it look professional and modern.">>

\* the static templates, one per framework key
fallbackTemplates ==
  [html |-> "<!DOCTYPE html> ... Welcome Back ... </html>",
   react |-> "import React, { useState } from 'react'; ... export default App;",
   tailwind |-> "<!DOCTYPE html> ... <script src='https://cdn.tailwindcss.com'></script> ... </html>",
   vue |-> "<template> ... </template> <script> ... </script> <style scoped> ... </style>"]

\* res.json(obj): status 200 unless set; a key whose value JSON.stringify
\* cannot serialise is left out of the body
JsonWithCode(status, code, rest) ==
  [status |-> status,
   body |-> IF Serialisable(code)
              THEN [k \in DOMAIN rest \cup {"code"} |->
                      IF k = "code" THEN code.val ELSE rest[k]]
              ELSE rest]

\* generateFallbackCode(req, res, framework, features)
generateFallbackCode(framework, features) ==
  LET template == Or(Get(fallbackTemplates, framework),
                     Get(fallbackTemplates, "html"))
  IN  JsonWithCode(200, template,
        [success |-> TRUE, framework |-> framework, features |-> features,
         provider |-> "fallback-template", model |-> "none", vision |-> FALSE,
         note |-> "Using fallback template - check your Gemini API configuration",
         timestamp |-> "ISO-8601"])

\* VisionResponse reporting the head of the model list, not the model called
VisionResponseFirstModel(generatedCode, framework, featureList, modelName) ==
  JsonWithCode(200, Str(generatedCode),
    [success |-> TRUE, framework |-> framework, features |-> featureList,
     provider |-> "google-gemini", model |-> AVAILABLE_MODELS[1], vision |-> TRUE,
     timestamp |-> "ISO-8601"])

\* res.json of the vision branch
VisionResponse(generatedCode, framework, featureList, modelName) ==
  JsonWithCode(200, Str(generatedCode),
    [success |-> TRUE, framework |-> framework, features |-> featureList,
     provider |-> "google-gemini", model |-> modelName, vision |-> TRUE,
     timestamp |-> "ISO-8601"])

\* TextOnlyResponse with the vision flag copied from the vision branch
TextOnlyResponseVisionFlag(generatedCode, framework, featureList, modelName) ==
  JsonWithCode(200, Str(generatedCode),
    [success |-> TRUE, framework |-> framework, features |-> featureList,
     provider |-> "google-gemini", model |-> modelName, vision |-> TRUE,
     note |-> "Generated generic code (vision not available)",
     timestamp |-> "ISO-8601"])

\* res.json of the text-only branch
TextOnlyResponse(generatedCode, framework, featureList, modelName) ==
  JsonWithCode(200, Str(generatedCode),
    [success |-> TRUE, framework |-> framework, features |-> featureList,
     provider |-> "google-gemini", model |-> modelName, vision |-> FALSE,
     note |-> "Generated generic code (vision not available)",
     timestamp |-> "ISO-8601"])

\* NoFileResponse with the status call left out: res.json alone answers 200
NoFileResponseNoStatus == [status |-> 200, body |-> [error |-> "No image file provided"]]

\* res.status(400).json({ error: 'No image file provided' })
NoFileResponse == [status |-> 400, body |-> [error |-> "No image file provided"]]

\* -------------------------------------------------- OpenAI variant: pure

\* OpenAIErrorResponse without the two vendor cases: every failure is a 500
OpenAIErrorResponseGeneric(code) ==
  [status |-> 500,
   body |-> [error |-> "Failed to generate code", details |-> code]]

\* the catch block of the OpenAI variant's handler
OpenAIErrorResponse(code) ==
  IF code = "insufficient_quota"
    THEN [status |-> 429,
          body |-> [error |-> "OpenAI API quota exceeded. Please check your billing details.",
                    details |-> code]]
  ELSE IF code = "invalid_api_key"
    THEN [status |-> 401,
          body |-> [error |-> "Invalid OpenAI API key. Please check your API key.",
                    details |-> code]]
  ELSE [status |-> 500,
        body |-> [error |-> "Failed to generate code", details |-> code]]

\* res.json of the OpenAI variant
OpenAIResponse(generatedCode, framework, featureList) ==
  JsonWithCode(200, Str(generatedCode),
    [success |-> TRUE, framework |-> framework, features |-> featureList,
     timestamp |-> "ISO-8601"])

\* ------------------------------------------------------------------ inputs

\* the requests the two servers take
Reqs == {"r1", "r2"}

\* the requests the serial specification sends
SerialReqs == {"r1"}

Variants == {"gemini", "openai"}

NoFile == [absent |-> TRUE]

Mimetypes == {<<"image", "png">>, <<"text", "plain">>}

FileSizesMiB == {1, 11}

\* form fields a file part may come in
FileFields == {"image", "avatar"}

Files ==
  [fieldname : FileFields, mimetype : Mimetypes, sizeMiB : FileSizesMiB,
   buffer : {"bytes"}]

\* framework field values: the four known, an unknown one, and one that names
\* a property of Object.prototype
FrameworkValues == {"html", "tailwind", "react", "vue", "svelte", "constructor"}

\* feature ids: the four known, an unknown one, an inherited property name
FeatureValues ==
  {"responsive", "accessible", "interactive", "modern", "animated", "constructor"}

FeatureLists == UNION {[1..n -> FeatureValues] : n \in 0..MaxFeatures}

\* features field values: what the client's JSON.stringify sends, JSON that is
\* no array, and text that is no JSON
RawFeatures ==
  {JSONstringify(l) : l \in FeatureLists}
    \cup {<<"{", "}">>, <<"null">>, <<"[", "responsive">>}

\* req.body: each of the two text fields is present or not
Bodies ==
  {[k \in fk \cup xk |-> IF k = "framework" THEN f ELSE x] :
     fk \in {{}, {"framework"}}, xk \in {{}, {"features"}},
     f \in FrameworkValues, x \in RawFeatures}

\* const { framework = 'html', features = '[]' } = req.body
Field(body, key, default) == IF key \in DOMAIN body THEN body[key] ELSE default

\* what a provider call comes back with: generated text or a failure
Outcomes ==
  {[kind |-> "ok", text |-> <<"<div>hi</div>">>],
   [kind |-> "insufficient_quota", text |-> <<>>],
   [kind |-> "invalid_api_key", text |-> <<>>],
   [kind |-> "error", text |-> <<>>]}

\* ------------------------------------------------------------------- state

VARIABLES
  request,    \* r -> the request as sent: variant, file, body
  pc,         \* r -> where the request is in its server
  reqFile,    \* r -> req.file as upload.single left it
  locals,     \* r -> the handler's framework, featureList, prompt, lastError
  calls,      \* r -> the provider calls issued so far, the last may be pending
  responses,  \* r -> the responses sent so far
  app,        \* the App component's state: one field per useState hook
  inflight,   \* the browser's pending asynchronous operations
  lastResult, \* history: code and framework of the last successful generation
  cleared     \* history: clearAll ran and the user has started nothing since

serverVars == <<request, pc, reqFile, locals, calls, responses>>

clientVars == <<app, inflight, lastResult, cleared>>

vars == <<request, pc, reqFile, locals, calls, responses, app, inflight,
          lastResult, cleared>>

NoRequest == [variant |-> "none", file |-> NoFile, body |-> <<>>]

\* a parsed features value: the JSON kind and, for an array, its elements
FeatureList(parsed) == [kind |-> parsed.kind, items |-> parsed.items]

NoLocals ==
  [framework |-> "", featureList |-> [kind |-> "none", items |-> <<>>],
   prompt |-> <<>>, modelIdx |-> 0, lastError |-> "null"]

NoImagePart == [absent |-> TRUE]

Pending == [kind |-> "pending", text |-> <<>>]

\* image === null
NoImage == <<>>

\* the useState initial values
InitialApp ==
  [image |-> NoImage, generatedCode |-> <<>>, loading |-> FALSE, error |-> "",
   activeTab |-> "code", framework |-> "html",
   features |-> <<"responsive", "accessible">>, uploadedFileName |-> ""]

NoResult == [code |-> <<>>, framework |-> "none"]

\* the largest number of pending operations of the browser
MaxInflight == 2

\* no request yet
ServerInit ==
  /\ request = [r \in Reqs |-> NoRequest]
  /\ pc = [r \in Reqs |-> "idle"]
  /\ reqFile = [r \in Reqs |-> NoFile]
  /\ locals = [r \in Reqs |-> NoLocals]
  /\ calls = [r \in Reqs |-> <<>>]
  /\ responses = [r \in Reqs |-> <<>>]

\* the servers before any request, the page as first rendered
Init ==
  /\ ServerInit
  /\ app = InitialApp
  /\ inflight = EmptyBag
  /\ lastResult = NoResult
  /\ cleared = FALSE

\* res.json / res.status().json: the response goes out, the handler returns
Respond(r, response) ==
  /\ responses' = [responses EXCEPT ![r] = Append(@, response)]
  /\ pc' = [pc EXCEPT ![r] = "done"]

\* a client sends a multipart POST /api/generate-code
Receive(r) ==
  /\ pc[r] = "idle"
  /\ \E v \in Variants, f \in Files \cup {NoFile}, b \in Bodies :
       request' = [request EXCEPT ![r] = [variant |-> v, file |-> f, body |-> b]]
  /\ pc' = [pc EXCEPT ![r] = "upload"]
  /\ UNCHANGED <<reqFile, locals, calls, responses>>
  /\ UNCHANGED clientVars

\* upload.single('image'): sets req.file and calls the handler, or raises the
\* error through next(err)
UploadSingle(r) ==
  /\ pc[r] = "upload"
  /\ LET file == request[r].file
         variant == request[r].variant
         route == LayerIndex(AppStack(variant), "generate-code")
     IN  IF file = NoFile
           THEN /\ pc' = [pc EXCEPT ![r] = "handler"]
                /\ UNCHANGED <<reqFile, responses>>
         ELSE IF MulterStorage(file).error # "none"
           THEN /\ Respond(r, DispatchError(variant, route, MulterStorage(file)))
                /\ UNCHANGED reqFile
         ELSE /\ reqFile' = [reqFile EXCEPT ![r] = file]
              /\ pc' = [pc EXCEPT ![r] = "handler"]
              /\ UNCHANGED responses
  /\ UNCHANGED <<request, locals, calls>>
  /\ UNCHANGED clientVars

\* a request the server has taken in and not answered yet
InProcess(q) == pc[q] \in {"upload", "handler", "vision", "text", "openai"}

\* an async handler's promise rejected, with nothing sent: express 4 drops
\* the rejection and the request stays unanswered, or, the source setting no
\* unhandledRejection handler, node 15 and later end the process on it and
\* with it every request the server is working on; express 5 passes the
\* rejection to next(err); the source pins neither version
RejectedPromise(r, err) ==
  \/ /\ pc' = [pc EXCEPT ![r] = "hung"]
     /\ UNCHANGED responses
  \/ /\ pc' = [q \in Reqs |->
                 IF q = r \/ (InProcess(q) /\ request[q].variant = request[r].variant)
                   THEN "aborted" ELSE pc[q]]
     /\ UNCHANGED responses
  \/ LET variant == request[r].variant
     IN  Respond(r, DispatchError(variant,
                      LayerIndex(AppStack(variant), "generate-code"), err))

\* OuterCatch answering with a generic server error and no template
OuterCatchGenericError(r) ==
  Respond(r, [status |-> 500, body |-> [error |-> "Internal server error"]])

\* the outer catch of the Gemini handler: it reads req.body and parses the
\* features again, then answers with the fallback template
OuterCatch(r) ==
  LET body == request[r].body
      framework == Field(body, "framework", "html")
      features == Field(body, "features", <<"[", "]">>)
      parsed == JSONparse(features)
  IN  IF ~parsed.ok
        THEN RejectedPromise(r, [error |-> "SyntaxError", code |-> "none",
                                  message |-> "Unexpected token in JSON"])
        ELSE Respond(r, generateFallbackCode(framework, FeatureList(parsed)))

\* one turn of the for loop over AVAILABLE_MODELS up to its first await, the
\* calls so far being log: the vision call on the model at idx, or the
\* fallback once the list is used up
TryModel(r, idx, loc, log) ==
  IF idx > Len(AVAILABLE_MODELS)
    THEN /\ Respond(r, generateFallbackCode(loc.framework, loc.featureList))
         /\ locals' = [locals EXCEPT ![r] = loc]
         /\ calls' = [calls EXCEPT ![r] = log]
    ELSE /\ calls' = [calls EXCEPT ![r] = Append(log,
                        [model |-> AVAILABLE_MODELS[idx], mode |-> "vision",
                         text |-> loc.prompt,
                         image |-> fileToGenerativePart(reqFile[r].buffer,
                                                        reqFile[r].mimetype),
                         outcome |-> Pending])]
         /\ locals' = [locals EXCEPT ![r] = [loc EXCEPT !.modelIdx = idx]]
         /\ pc' = [pc EXCEPT ![r] = "vision"]
         /\ UNCHANGED responses

\* the Gemini handler from its entry to its first await
GenerateCodeHandler(r) ==
  /\ pc[r] = "handler"
  /\ request[r].variant = "gemini"
  /\ LET body == request[r].body
         framework == Field(body, "framework", "html")
         features == Field(body, "features", <<"[", "]">>)
         parsed == JSONparse(features)
     IN  IF reqFile[r] = NoFile
           THEN Respond(r, NoFileResponse) /\ UNCHANGED <<locals, calls>>
         ELSE IF ~parsed.ok \/ parsed.kind # "array"
           \* JSON.parse throws, or featureList.join is not a function
           THEN OuterCatch(r) /\ UNCHANGED <<locals, calls>>
         ELSE TryModel(r, 1,
                [framework |-> framework, featureList |-> FeatureList(parsed),
                 prompt |-> prompt(framework, parsed.items), modelIdx |-> 0,
                 lastError |-> "null"],
                calls[r])
  /\ UNCHANGED <<request, reqFile>>
  /\ UNCHANGED clientVars

\* Returned for a call that is not awaited: the next one starts beside it
ReturnedNotAwaited(r, o) == calls[r]

\* the pending call of r comes back with outcome o
Returned(r, o) == [calls[r] EXCEPT ![Len(calls[r])].outcome = o]

\* the vision call settles: its text is the response, or the text-only call
\* is issued on the same model
VisionReturns(r) ==
  /\ pc[r] = "vision"
  /\ \E o \in Outcomes :
       LET loc == locals[r]
           modelName == AVAILABLE_MODELS[loc.modelIdx]
       IN  IF o.kind = "ok"
             THEN /\ calls' = [calls EXCEPT ![r] = Returned(r, o)]
                  /\ Respond(r, VisionResponse(o.text, loc.framework,
                                               loc.featureList, modelName))
             ELSE /\ calls' = [calls EXCEPT ![r] = Append(Returned(r, o),
                                 [model |-> modelName, mode |-> "text-only",
                                  text |-> textPrompt(loc.framework,
                                                      loc.featureList.items),
                                  image |-> NoImagePart,
                                  outcome |-> Pending])]
                  /\ pc' = [pc EXCEPT ![r] = "text"]
                  /\ UNCHANGED responses
  /\ UNCHANGED <<request, reqFile, locals>>
  /\ UNCHANGED clientVars

\* the text-only call settles: its text is the response, or the per-model
\* catch records the error and the loop goes on to the next model
TextReturns(r) ==
  /\ pc[r] = "text"
  /\ \E o \in Outcomes :
       LET loc == locals[r]
           modelName == AVAILABLE_MODELS[loc.modelIdx]
       IN  IF o.kind = "ok"
             THEN /\ calls' = [calls EXCEPT ![r] = Returned(r, o)]
                  /\ Respond(r, TextOnlyResponse(o.text, loc.framework,
                                                 loc.featureList, modelName))
                  /\ UNCHANGED locals
             ELSE TryModel(r, loc.modelIdx + 1,
                           [loc EXCEPT !.lastError = o.kind], Returned(r, o))
  /\ UNCHANGED <<request, reqFile>>
  /\ UNCHANGED clientVars

\* -------------------------------------------------------- OpenAI variant

\* the OpenAI variant's handler from its entry to its await: a throw before
\* the call lands in its catch block
OpenAIHandler(r) ==
  /\ pc[r] = "handler"
  /\ request[r].variant = "openai"
  /\ LET body == request[r].body
         framework == Field(body, "framework", "html")
         features == Field(body, "features", <<"[", "]">>)
         parsed == JSONparse(features)
     IN  IF reqFile[r] = NoFile
           THEN Respond(r, NoFileResponse) /\ UNCHANGED <<locals, calls>>
         ELSE IF ~parsed.ok \/ parsed.kind # "array"
           \* JSON.parse throws, or featureList.map is not a function
           THEN Respond(r, OpenAIErrorResponse("none")) /\ UNCHANGED <<locals, calls>>
         ELSE /\ locals' = [locals EXCEPT ![r] =
                   [framework |-> framework, featureList |-> FeatureList(parsed),
                    prompt |-> prompt(framework, parsed.items), modelIdx |-> 0,
                    lastError |-> "null"]]
              /\ calls' = [calls EXCEPT ![r] = Append(@,
                   [model |-> "gpt-4-vision-preview", mode |-> "vision",
                    text |-> prompt(framework, parsed.items),
                    image |-> [url |-> <<"data:", reqFile[r].mimetype, ";base64,",
                                         reqFile[r].buffer>>],
                    outcome |-> Pending])]
              /\ pc' = [pc EXCEPT ![r] = "openai"]
              /\ UNCHANGED responses
  /\ UNCHANGED <<request, reqFile>>
  /\ UNCHANGED clientVars

\* openai.chat.completions.create settles
OpenAIReturns(r) ==
  /\ pc[r] = "openai"
  /\ \E o \in Outcomes :
       /\ calls' = [calls EXCEPT ![r] = Returned(r, o)]
       /\ Respond(r, IF o.kind = "ok"
                       THEN OpenAIResponse(o.text, locals[r].framework,
                                           locals[r].featureList)
                       ELSE OpenAIErrorResponse(o.kind))
  /\ UNCHANGED <<request, reqFile, locals>>
  /\ UNCHANGED clientVars

\* ----------------------------------------------------------- specification

\* one request at a time
Next ==
  \E r \in SerialReqs :
    \/ Receive(r)
    \/ UploadSingle(r)
    \/ GenerateCodeHandler(r)
    \/ VisionReturns(r)
    \/ TextReturns(r)
    \/ OpenAIHandler(r)
    \/ OpenAIReturns(r)

Spec == Init /\ [][Next]_vars

\* ------------------------------------------------------------ observations

\* r was sent to the Gemini server
Gemini(r) == request[r].variant = "gemini"

\* the handler of r is over: a response went out or its promise was dropped
Finished(r) == pc[r] \in {"done", "hung"}

\* r got exactly one response
Answered(r) == pc[r] = "done" /\ Len(responses[r]) = 1

\* the response of an answered request
Answer(r) == responses[r][1]

\* a provider call that has come back with a failure
Failed(call) == call.outcome.kind \notin {"ok", "pending"}

\* upload.single let the file of r through
Admitted(r) == reqFile[r] # NoFile

\* the features field of r as the handler reads it, parsed
ParsedFeatures(r) == JSONparse(Field(request[r].body, "features", <<"[", "]">>))

\* the framework of r as the handler reads it
Framework(r) == Field(request[r].body, "framework", "html")

\* every model of AVAILABLE_MODELS got its vision and its text-only call and
\* all of them failed
AllCallsFailed(r) ==
  /\ Len(calls[r]) = 2 * Len(AVAILABLE_MODELS)
  /\ \A i \in 1..Len(calls[r]) : Failed(calls[r][i])

\* the template the fallback provider is specified to serve for a framework
TemplateOf(framework) ==
  IF framework \in DOMAIN fallbackTemplates
    THEN <<fallbackTemplates[framework]>>
    ELSE <<fallbackTemplates.html>>

\* ------------------------------------------------------------------ claims

\* the fallback response but for its code
FallbackShape(r) ==
  /\ Answered(r)
  /\ Answer(r).status = 200
  /\ Answer(r).body.success = TRUE
  /\ Answer(r).body.provider = "fallback-template"
  /\ Answer(r).body.model = "none"
  /\ Answer(r).body.vision = FALSE
  /\ "note" \in DOMAIN Answer(r).body

\* C1: a well-formed request (image admitted, features a JSON array) all of
\* whose provider calls fail on every model is answered with status 200,
\* success, provider fallback-template, model none, vision false, a note and
\* the static template of the requested framework as code.
C1_AllFailGivesFallbackTemplate ==
  \A r \in Reqs :
    (Gemini(r) /\ Finished(r) /\ Admitted(r) /\ AllCallsFailed(r))
      => /\ FallbackShape(r)
         /\ "code" \in DOMAIN Answer(r).body
         /\ Answer(r).body.code = TemplateOf(Framework(r))

\* The part of the fallback response that does not depend on the template
\* lookup: status and fields of the response when every call fails.
C1_AllFailGivesFallbackShape ==
  \A r \in Reqs :
    (Gemini(r) /\ Finished(r) /\ Admitted(r) /\ AllCallsFailed(r))
      => FallbackShape(r)

\* C2: when the first model's vision call fails and its text-only call
\* succeeds, the response has vision false and the first model as model, and
\* no call ever goes to a later model.
C2_TextOnlyOnFirstModelStops ==
  \A r \in Reqs :
    (/\ Gemini(r)
     /\ Len(calls[r]) >= 2
     /\ calls[r][1].mode = "vision" /\ Failed(calls[r][1])
     /\ calls[r][2].mode = "text-only" /\ calls[r][2].outcome.kind = "ok")
      => /\ Answered(r)
         /\ Answer(r).body.vision = FALSE
         /\ Answer(r).body.model = AVAILABLE_MODELS[1]
         /\ Len(calls[r]) = 2
         /\ \A i \in 1..Len(calls[r]) : calls[r][i].model = AVAILABLE_MODELS[1]

\* the first model failed on vision and answered the text-only call
C2_Witness ==
  \E r \in Reqs :
    /\ Gemini(r) /\ Answered(r)
    /\ Len(calls[r]) = 2
    /\ Failed(calls[r][1])
    /\ calls[r][2].mode = "text-only" /\ calls[r][2].outcome.kind = "ok"
    /\ Answer(r).body.model = "gemini-pro"

\* C3: the first provider call that succeeds ends the orchestration: it is
\* the last call of the request and nothing is pending after it, and the
\* response names provider google-gemini, the model of that call, and has
\* vision true exactly when that call was the vision call.
C3_FirstSuccessEndsOrchestration ==
  \A r \in Reqs :
    Gemini(r) =>
      \A i \in 1..Len(calls[r]) :
        calls[r][i].outcome.kind = "ok"
          => /\ i = Len(calls[r])
             /\ Answered(r)
             /\ Answer(r).status = 200
             /\ Answer(r).body.provider = "google-gemini"
             /\ Answer(r).body.model = calls[r][i].model
             /\ Answer(r).body.vision = (calls[r][i].mode = "vision")

\* a vision call on the second model succeeded after three failed calls
C3_Witness ==
  \E r \in Reqs :
    /\ Gemini(r) /\ Answered(r)
    /\ Len(calls[r]) = 3
    /\ calls[r][3].mode = "vision" /\ calls[r][3].outcome.kind = "ok"
    /\ Answer(r).body.model = "gemini-1.0-pro"
    /\ Answer(r).body.vision = TRUE

\* C5: a request with no image file gets status 400 and the body
\* {error: 'No image file provided'}, and no provider call is issued for it,
\* whatever its framework and features fields hold.
C5_NoFileIs400 ==
  \A r \in Reqs :
    (Gemini(r) /\ request[r].file = NoFile)
      => /\ calls[r] = <<>>
         /\ pc[r] \in {"idle", "upload", "handler", "done"}
         /\ pc[r] = "done"
              => /\ Answered(r)
                 /\ Answer(r).status = 400
                 /\ Answer(r).body = [error |-> "No image file provided"]

\* a request with no file, an unknown framework and unparsable features has
\* been answered
C5_Witness ==
  \E r \in Reqs :
    /\ Gemini(r) /\ request[r].file = NoFile /\ Answered(r)
    /\ Framework(r) = "svelte"
    /\ ~ParsedFeatures(r).ok
    /\ Answer(r).status = 400

\* C4: a request whose features field is not parsable JSON is reported as a
\* client error, status 400, and no provider call is issued for it.  Stated
\* for the requests whose image upload.single let through.
C4_UnparsableFeaturesIs400 ==
  \A r \in Reqs :
    (Gemini(r) /\ Admitted(r) /\ ~ParsedFeatures(r).ok /\ Finished(r))
      => /\ Answered(r)
         /\ Answer(r).status = 400
         /\ calls[r] = <<>>

\* C6: a request whose image (sent in the image field) exceeds 10 MiB gets status 400 with the
\* file-too-large error, and no provider call is issued for it.
C6_OversizeIs400 ==
  \A r \in Reqs :
    (/\ Gemini(r)
     /\ request[r].file # NoFile
     /\ request[r].file.fieldname = "image"
     /\ IsImageMimetype(request[r].file.mimetype)
     /\ request[r].file.sizeMiB > FileSizeLimitMiB
     /\ pc[r] # "upload")
      => /\ Answered(r)
         /\ Answer(r).status = 400
         /\ Answer(r).body = [error |-> "File too large. Maximum size is 10MB."]
         /\ calls[r] = <<>>

\* C7: a request whose file in the image field has a MIME type not starting
\* with image/ is rejected with status 400 before the image encoder or any
\* provider call is reached.
C7_NonImageIs400 ==
  \A r \in Reqs :
    (/\ Gemini(r)
     /\ request[r].file # NoFile
     /\ request[r].file.fieldname = "image"
     /\ ~IsImageMimetype(request[r].file.mimetype)
     /\ pc[r] # "upload")
      => /\ Answered(r)
         /\ Answer(r).status = 400
         /\ calls[r] = <<>>

\* the handler of r faulted on a features value that is JSON but no array
NonArrayFault(r) ==
  /\ Gemini(r) /\ Admitted(r) /\ Finished(r)
  /\ ParsedFeatures(r).ok /\ ParsedFeatures(r).kind # "array"

\* C8 as stated: a runtime fault in the handler outside the retry loop
\* (features parsing to a JSON value that is no array) is surfaced as status
\* 500 with an error message, not as a successful response.
C8_FaultIs500 ==
  \A r \in Reqs :
    NonArrayFault(r)
      => /\ Answered(r)
         /\ Answer(r).status = 500
         /\ "error" \in DOMAIN Answer(r).body
         /\ "success" \notin DOMAIN Answer(r).body

\* C8 amended: a runtime fault in the handler outside the retry loop raised
\* by a features value that is JSON but no array is answered by the outer
\* catch with the fallback response: status 200, success, provider
\* fallback-template, and no provider call.
C8_FaultIsFallback ==
  \A r \in Reqs :
    NonArrayFault(r) => FallbackShape(r) /\ calls[r] = <<>>

\* features '{}' with an admitted image has been answered
C8_Witness ==
  \E r \in Reqs :
    /\ NonArrayFault(r) /\ Answered(r)
    /\ ParsedFeatures(r).kind = "object"
    /\ Answer(r).body.provider = "fallback-template"

\* the status the claim gives a vendor failure
VendorFailureStatus(kind) ==
  IF kind = "insufficient_quota" THEN 429
  ELSE IF kind = "invalid_api_key" THEN 401
  ELSE 500

\* C9 as stated: when the vendor call fails with a quota-exceeded error the
\* generate-code response has status 429, with an invalid-credential error
\* 401, and with any other vendor failure 500.
C9_VendorFailureStatus ==
  \A r \in Reqs :
    (Answered(r) /\ calls[r] # <<>> /\ Failed(calls[r][Len(calls[r])]))
      => Answer(r).status = VendorFailureStatus(calls[r][Len(calls[r])].outcome.kind)

\* C9 amended: in the OpenAI variant a vendor failure with code
\* insufficient_quota gives status 429, with invalid_api_key 401, any other
\* 500; in the Gemini server a vendor failure never shows in the status: a
\* request that reached a provider call is answered 200.
C9_VendorFailureStatusByServer ==
  \A r \in Reqs :
    (Answered(r) /\ calls[r] # <<>>)
      => LET last == calls[r][Len(calls[r])]
         IN  IF Gemini(r)
               THEN Answer(r).status = 200
               ELSE Failed(last)
                      => Answer(r).status = VendorFailureStatus(last.outcome.kind)

\* the OpenAI variant answered a request whose vendor call failed on quota
C9_Witness ==
  \E r \in Reqs :
    /\ request[r].variant = "openai" /\ Answered(r) /\ calls[r] # <<>>
    /\ calls[r][1].outcome.kind = "insufficient_quota"
    /\ Answer(r).status = 429

\* C10: for a framework value that is none of html, tailwind, react, vue the
\* prompt equals the prompt built for html with the same feature list; for
\* each of the four the prompt contains that framework's instruction text.
C10_PromptFrameworkInstruction ==
  \A r \in Reqs :
    (locals[r].prompt # <<>>)
      => LET framework == locals[r].framework
             built == locals[r].prompt
         IN  IF framework \in DOMAIN frameworkPrompts
               THEN \E i \in 1..Len(built) : built[i] = frameworkPrompts[framework]
               ELSE built = prompt("html", locals[r].featureList.items)

\* the feature ids of a list that featurePrompts has an instruction for
KnownFeatures(items) == SelectSeq(items, LAMBDA f : f \in DOMAIN featurePrompts)

\* C11: a feature's instruction text is in the prompt exactly when its id is
\* in the feature list, and an unknown id contributes nothing: the prompt of
\* a list equals the prompt of the list with the unknown ids removed.
C11_FeatureInstructions ==
  \A r \in Reqs :
    (locals[r].prompt # <<>>)
      => LET items == locals[r].featureList.items
             built == locals[r].prompt
         IN  /\ \A f \in DOMAIN featurePrompts :
                  (\E i \in 1..Len(built) : built[i] = featurePrompts[f])
                    <=> (\E i \in 1..Len(items) : items[i] = f)
             /\ built = prompt(locals[r].framework, KnownFeatures(items))

\* The first half of C11 alone: instruction present exactly when the id is.
C11_KnownInstructionIffListed ==
  \A r \in Reqs :
    (locals[r].prompt # <<>>)
      => \A f \in DOMAIN featurePrompts :
           (\E i \in 1..Len(locals[r].prompt) :
              locals[r].prompt[i] = featurePrompts[f])
             <=> (\E i \in 1..Len(locals[r].featureList.items) :
                    locals[r].featureList.items[i] = f)

\* C12: generateFallbackCode returns the template keyed by the framework for
\* html, react, tailwind and vue and the html template for every other
\* framework value; the code it returns is always a non-empty string.
C12_FallbackTemplateLookup ==
  \A r \in Reqs :
    (/\ Gemini(r) /\ Answered(r)
     /\ "provider" \in DOMAIN Answer(r).body
     /\ Answer(r).body.provider = "fallback-template")
      => /\ "code" \in DOMAIN Answer(r).body
         /\ Answer(r).body.code # <<>>
         /\ Answer(r).body.code = TemplateOf(Answer(r).body.framework)

\* ------------------------------------------------ the preview's document

\* Generated code is a sequence of pieces of text. The pieces the preview
\* looks at are single pieces: a backtick, a language name, a line break, a
\* blank, an opening angle bracket, an opening brace; '<html' is the bracket
\* followed by "html", '</style>' the bracket followed by "/style>".
Backtick == "<backtick>"

\* the delimiter of a fenced code block
Fence == <<Backtick, Backtick, Backtick>>

LanguageTags == {"html", "javascript", "jsx"}

WhiteSpace == {" ", "\n"}

\* text.includes(pattern)
includes(text, pattern) ==
  \E i \in 1..(Len(text) - Len(pattern) + 1) :
    SubSeq(text, i, i + Len(pattern) - 1) = pattern

\* three backticks open text
FenceAt(text) ==
  /\ Len(text) >= 3
  /\ \A k \in 1..3 : text[k] = Backtick

\* what follows the match of /```(?:html|javascript|jsx)?\n?/ at the head of
\* text: the backticks, a language tag if one is next, a line break if one is
\* next
AfterFence(text) ==
  LET afterTicks == SubSeq(text, 4, Len(text))
      afterTag == IF afterTicks # <<>> /\ Head(afterTicks) \in LanguageTags
                    THEN Tail(afterTicks) ELSE afterTicks
  IN  IF afterTag # <<>> /\ Head(afterTag) = "\n"
        THEN Tail(afterTag) ELSE afterTag

\* code.replace(/```(?:html|javascript|jsx)?\n?/g, ''): every match, leftmost
\* first and not overlapping, is removed
RECURSIVE RemoveFences(_)
RemoveFences(text) ==
  IF text = <<>> THEN <<>>
  ELSE IF FenceAt(text) THEN RemoveFences(AfterFence(text))
  ELSE <<Head(text)>> \o RemoveFences(Tail(text))

\* .replace(/```/g, '')
RECURSIVE RemoveTripleBackticks(_)
RemoveTripleBackticks(text) ==
  IF text = <<>> THEN <<>>
  ELSE IF FenceAt(text)
    THEN RemoveTripleBackticks(SubSeq(text, 4, Len(text)))
  ELSE <<Head(text)>> \o RemoveTripleBackticks(Tail(text))

RECURSIVE TrimStart(_)
TrimStart(text) ==
  IF text # <<>> /\ Head(text) \in WhiteSpace
    THEN TrimStart(Tail(text)) ELSE text

RECURSIVE TrimEnd(_)
TrimEnd(text) ==
  IF text # <<>> /\ text[Len(text)] \in WhiteSpace
    THEN TrimEnd(SubSeq(text, 1, Len(text) - 1)) ELSE text

\* trim that leaves the white space at the end
trimStartOnly(text) == TrimStart(text)

\* String.prototype.trim
trim(text) == TrimEnd(TrimStart(text))

\* cleanCode taking one white-space piece at most from each end
cleanCodeTrimOnce(code) ==
  LET unfenced == RemoveTripleBackticks(RemoveFences(code))
      start == IF unfenced # <<>> /\ Head(unfenced) \in WhiteSpace
                 THEN Tail(unfenced) ELSE unfenced
  IN  IF start # <<>> /\ start[Len(start)] \in WhiteSpace
        THEN SubSeq(start, 1, Len(start) - 1) ELSE start

\* let cleanCode = code.replace(...).replace(...).trim(): the normalizer
cleanCode(code) == trim(RemoveTripleBackticks(RemoveFences(code)))

\* cleanCode.includes('<!DOCTYPE html>') || cleanCode.includes('<html')
IsCompleteDocument(clean) ==
  includes(clean, <<"<", "!DOCTYPE html>">>) \/ includes(clean, <<"<", "html">>)

\* the wrapper shells, each a template literal around ${cleanCode}: the
\* pieces the claims look for are pieces of their own, the rest of a
\* template is abridged to its title
ReactScripts ==
  <<"<script src=\"https://unpkg.com/react@18/umd/react.development.js\"></script>",
    "<script src=\"https://unpkg.com/react-dom@18/umd/react-dom.development.js\"></script>",
    "<script src=\"https://unpkg.com/@babel/standalone/babel.min.js\"></script>">>

ReactMount == "<div id=\"root\"></div>"

ReactRender == "ReactDOM.render(<App />, document.getElementById('root'));"

ReactShell(clean) ==
  <<"<!DOCTYPE html><html><head><title>Generated React Component</title>">>
    \o ReactScripts
    \o <<"<style>body {} * {}</style></head><body>", ReactMount,
         "<script type=\"text/babel\">">>
    \o clean
    \o <<ReactRender, "</script></body></html>">>

VueScript == "<script src=\"https://unpkg.com/vue@3/dist/vue.global.js\"></script>"

VueMount == "<div id=\"app\"></div>"

VueShell(clean) ==
  <<"<!DOCTYPE html><html><head><title>Generated Vue Component</title>",
    VueScript, "<style>body {} * {}</style></head><body>", VueMount,
    "<script>">>
    \o clean
    \o <<"app.mount('#app');", "</script></body></html>">>

TailwindScript == "<script src=\"https://cdn.tailwindcss.com\"></script>"

TailwindBodyOpen == "</head><body class=\"bg-gray-50\">"

BodyClose == "</body></html>"

TailwindShell(clean) ==
  <<"<!DOCTYPE html><html><head><title>Generated Tailwind UI</title>",
    TailwindScript, TailwindBodyOpen>>
    \o clean
    \o <<BodyClose>>

PlainStyleOpen == "<style>body {} * {}"

PlainStyleClose == "</style></head><body>"

ContainerOpen == "<div class=\"container\">"

ContainerClose == "</div>"

\* PlainShell without the test for '</style>'
PlainShellAnyBrace(clean) ==
  <<"<!DOCTYPE html><html><head><title>Generated UI</title>", PlainStyleOpen>>
    \o (IF includes(clean, <<"{">>) THEN clean ELSE <<>>)
    \o <<PlainStyleClose>>
    \o (IF includes(clean, <<"<">>) THEN clean
        ELSE <<ContainerOpen>> \o clean \o <<ContainerClose>>)
    \o <<BodyClose>>

\* the plain HTML/CSS shell: the code goes into the style block unless it
\* includes '</style>' or has no '{', and into the body as it is if it
\* includes '<', inside a container div otherwise
PlainShell(clean) ==
  <<"<!DOCTYPE html><html><head><title>Generated UI</title>", PlainStyleOpen>>
    \o (IF includes(clean, <<"<", "/style>">>) THEN <<>>
        ELSE IF includes(clean, <<"{">>) THEN clean ELSE <<>>)
    \o <<PlainStyleClose>>
    \o (IF includes(clean, <<"<">>) THEN clean
        ELSE <<ContainerOpen>> \o clean \o <<ContainerClose>>)
    \o <<BodyClose>>

\* extractHTMLFromCode without the Tailwind rule
extractHTMLFromCodeNoTailwind(code, framework) ==
  LET clean == cleanCode(code)
  IN  IF IsCompleteDocument(clean) THEN clean
      ELSE IF framework = "react" THEN ReactShell(clean)
      ELSE IF framework = "vue" THEN VueShell(clean)
      ELSE PlainShell(clean)

\* extractHTMLFromCode(code), framework being the component's state
extractHTMLFromCode(code, framework) ==
  LET clean == cleanCode(code)
  IN  IF IsCompleteDocument(clean) THEN clean
      ELSE IF framework = "react" THEN ReactShell(clean)
      ELSE IF framework = "vue" THEN VueShell(clean)
      ELSE IF framework = "tailwind" THEN TailwindShell(clean)
      ELSE PlainShell(clean)

\* ------------------------------------------------------------ the client

\* the values of the framework radio buttons
ClientFrameworks == {"html", "tailwind", "react", "vue"}

\* the feature checkboxes that get toggled
ToggledFeatures == {"interactive"}

\* files offered to handleFileSelect: an image, an image over the client's
\* limit, a file that is no image; NoFile stands for files[0] undefined
SelectedFiles ==
  {[name |-> "design-a.png", type |-> <<"image", "png">>, sizeMiB |-> 1],
   [name |-> "huge.png", type |-> <<"image", "png">>, sizeMiB |-> 11],
   [name |-> "notes.txt", type |-> <<"text", "plain">>, sizeMiB |-> 1]}

\* file.type.startsWith('image/')
IsImageType(type) == type[1] = "image"

ClientSizeLimitMiB == 10

\* reader.readAsDataURL(file): e.target.result
DataURL(file) == <<"data:">> \o file.type \o <<";base64,", file.name>>

\* the code of a successful generation result: a fragment and a complete
\* document
ResultCodes ==
  {<<"<", "div>", "hi", "<", "/div>">>,
   <<"<", "!DOCTYPE html>", "<", "html", "hi">>}

\* how the POST of generateCode settles: a success body with its code, an
\* error status, or no response within the timeout
GenerateOutcomes ==
  {[kind |-> "success", code |-> c] : c \in ResultCodes}
    \cup {[kind |-> k, code |-> <<>>] : k \in {"ECONNABORTED", "429", "500"}}

\* the catch block of generateCode: the message by error code and status
ErrorMessage(kind) ==
  IF kind = "ECONNABORTED"
    THEN "Request timeout. The image might be too complex. Please try again."
  ELSE IF kind = "429"
    THEN "Google Gemini API quota exceeded. Please check your Google AI Studio quota."
  ELSE IF kind = "401"
    THEN "Invalid Google Gemini API key. Please check your backend configuration."
  ELSE IF kind = "500"
    THEN "Server error. Please check if the backend is running and the Gemini API key is valid."
  ELSE "Failed to generate code. Please try again."

\* the pending operations, all kinds together
Outstanding == BagCardinality(inflight)

\* a pending operation settles
Settle(op) == inflight' = inflight (-) SetToBag({op})

\* a new operation is pending
Start(op) == inflight' = inflight (+) SetToBag({op})

\* handleFileSelect(file): an image within the limit is read, the read
\* completing later; anything else sets the error
HandleFileSelect ==
  /\ \E file \in SelectedFiles \cup {NoFile} :
       IF file # NoFile /\ IsImageType(file.type)
         THEN IF file.sizeMiB > ClientSizeLimitMiB
                THEN /\ app' = [app EXCEPT !.error =
                          "File size too large. Maximum size is 10MB."]
                     /\ UNCHANGED inflight
                ELSE /\ Outstanding < MaxInflight
                     /\ Start([op |-> "read", file |-> file])
                     /\ app' = [app EXCEPT !.error = ""]
         ELSE /\ app' = [app EXCEPT !.error =
                   "Please select a valid image file (JPEG, PNG, WebP, etc.)"]
              /\ UNCHANGED inflight
  /\ UNCHANGED <<lastResult, serverVars>>
  /\ cleared' = FALSE

\* reader.onload
ReaderOnload ==
  /\ \E o \in BagToSet(inflight) :
       /\ o.op = "read"
       /\ Settle(o)
       /\ app' = [app EXCEPT !.image = DataURL(o.file),
                             !.uploadedFileName = o.file.name]
  /\ UNCHANGED <<lastResult, serverVars>>
  /\ UNCHANGED cleared

\* a click on the generate button, which is disabled if there is no image or
\* loading is set: the POST carries the image, the framework and the features
\* of the render the click happened in
GenerateCode ==
  /\ app.image # NoImage
  /\ ~app.loading
  /\ Outstanding < MaxInflight
  /\ app' = [app EXCEPT !.loading = TRUE, !.error = ""]
  /\ Start([op |-> "generate", image |-> app.image,
            framework |-> app.framework,
            features |-> JSONstringify(app.features)])
  /\ UNCHANGED <<lastResult, serverVars>>
  /\ cleared' = FALSE

\* the POST of generateCode settles: the code of a success is stored and the
\* code tab selected, a failure sets the error; finally loading is reset
GenerateSettles ==
  /\ \E o \in BagToSet(inflight), result \in GenerateOutcomes :
       /\ o.op = "generate"
       /\ Settle(o)
       /\ IF result.kind = "success"
            THEN /\ app' = [app EXCEPT !.generatedCode = result.code,
                                       !.activeTab = "code",
                                       !.loading = FALSE]
                 /\ lastResult' = [code |-> result.code,
                                   framework |-> o.framework]
            ELSE /\ app' = [app EXCEPT !.error = ErrorMessage(result.kind),
                                       !.loading = FALSE]
                 /\ UNCHANGED lastResult
  /\ UNCHANGED serverVars
  /\ UNCHANGED cleared

\* a framework radio button: setFramework(e.target.value)
SetFramework ==
  /\ \E f \in ClientFrameworks : app' = [app EXCEPT !.framework = f]
  /\ UNCHANGED <<inflight, lastResult, serverVars>>
  /\ UNCHANGED cleared

\* handleFeatureToggle(feature)
HandleFeatureToggle ==
  /\ \E feature \in ToggledFeatures :
       app' = [app EXCEPT !.features =
                 IF \E i \in 1..Len(@) : @[i] = feature
                   THEN SelectSeq(@, LAMBDA f : f # feature)
                   ELSE Append(@, feature)]
  /\ UNCHANGED <<inflight, lastResult, serverVars>>
  /\ UNCHANGED cleared

\* the tabs, rendered while generatedCode is not empty
SetActiveTab ==
  /\ app.generatedCode # <<>>
  /\ \E tab \in {"code", "preview"} : app' = [app EXCEPT !.activeTab = tab]
  /\ UNCHANGED <<inflight, lastResult, serverVars>>
  /\ UNCHANGED cleared

\* the clear button, rendered while there is an image
ClearAll ==
  /\ app.image # NoImage
  /\ app' = [app EXCEPT !.image = NoImage, !.generatedCode = <<>>,
                        !.error = "", !.uploadedFileName = ""]
  /\ UNCHANGED <<inflight, lastResult, serverVars>>
  /\ cleared' = TRUE

\* the test button, rendered while there is an image
TestConnection ==
  /\ app.image # NoImage
  /\ Outstanding < MaxInflight
  /\ app' = [app EXCEPT !.loading = TRUE]
  /\ Start([op |-> "test"])
  /\ UNCHANGED <<lastResult, serverVars>>
  /\ UNCHANGED cleared

\* the POST of testConnection settles either way: finally loading is reset
TestSettles ==
  /\ \E o \in BagToSet(inflight) :
       /\ o.op = "test"
       /\ Settle(o)
  /\ app' = [app EXCEPT !.loading = FALSE]
  /\ UNCHANGED <<lastResult, serverVars>>
  /\ UNCHANGED cleared

ClientNext ==
  \/ HandleFileSelect
  \/ ReaderOnload
  \/ GenerateCode
  \/ GenerateSettles
  \/ SetFramework
  \/ HandleFeatureToggle
  \/ SetActiveTab
  \/ ClearAll
  \/ TestConnection
  \/ TestSettles

SpecClient == Init /\ [][ClientNext]_vars

\* the iframe of the preview tab: srcDoc={extractHTMLFromCode(generatedCode)}
PreviewShown == app.generatedCode # <<>> /\ app.activeTab = "preview"

srcDoc == extractHTMLFromCode(app.generatedCode, app.framework)

\* ------------------------------------------- the preview of any result

\* the longest generated text, in chunks
MaxChunks == 3

\* what generated text is made of: a fence, a lone backtick, a language
\* name, white space, markup, the two spellings of the doctype, a brace, the
\* style tags, plain text
Chunks ==
  {Fence, <<Backtick>>, <<"html">>, <<"\n">>, <<" ">>, <<"<">>,
   <<"!DOCTYPE html>">>, <<"!doctype html>">>, <<"{">>, <<"style>">>,
   <<"/style>">>, <<"hi">>}

RECURSIVE ChunkTexts(_)
ChunkTexts(n) ==
  IF n = 0 THEN {<<>>}
  ELSE LET shorter == ChunkTexts(n - 1)
       IN  shorter \cup {t \o c : t \in shorter, c \in Chunks}

\* what a model puts between its fences
FencedBodies ==
  {<<"<", "div>", "hi", "<", "/div>">>,
   <<"<", "!DOCTYPE html>", "<", "html", "hi">>,
   <<"hi", " ", "{", "hi">>,
   <<"hi">>}

\* a fenced answer: the opener with or without a language tag, the body on
\* lines of its own, the closing fence
FencedTexts ==
  {Fence \o tag \o <<"\n">> \o body \o <<"\n">> \o Fence :
     tag \in {<<>>} \cup {<<t>> : t \in LanguageTags}, body \in FencedBodies}

GeneratedTexts == (ChunkTexts(MaxChunks) \cup FencedTexts) \ {<<>>}

\* the client after a successful generation whose code is any text
InitPreview ==
  /\ ServerInit
  /\ \E code \in GeneratedTexts :
       /\ app = [InitialApp EXCEPT
                   !.image = DataURL([name |-> "design-a.png",
                                      type |-> <<"image", "png">>,
                                      sizeMiB |-> 1]),
                   !.uploadedFileName = "design-a.png",
                   !.generatedCode = code]
       /\ lastResult = [code |-> code, framework |-> "html"]
  /\ inflight = EmptyBag
  /\ cleared = FALSE

PreviewNext ==
  \/ SetFramework
  \/ SetActiveTab

SpecPreview == InitPreview /\ [][PreviewNext]_vars

\* ----------------------------------------------- claims about the preview

\* the cleaned code of the generated code on show
normalized == cleanCode(app.generatedCode)

\* C13: the normalizer is idempotent: normalizing the normalized code gives
\* the normalized code again.
C13_NormalizerIdempotent == cleanCode(normalized) = normalized

\* a fenced text with white space around it went through the normalizer
C13_Witness ==
  /\ PreviewShown
  /\ includes(app.generatedCode, Fence)
  /\ Head(app.generatedCode) \in WhiteSpace
  /\ normalized # <<>>

DivHi == <<"<", "div>", "hi", "<", "/div>">>

\* C14: the normalized code holds no fence and has no white space at either
\* end; a fence opener followed by html, javascript or jsx goes together with
\* its tag, the text after it being normalized as it would be alone; a
\* fenced body comes out unchanged, and the fenced '<div>hi</div>' comes out
\* as exactly that and is not a complete document.
C14_NormalizedCode ==
  LET code == app.generatedCode
  IN  /\ ~includes(normalized, Fence)
      /\ normalized # <<>>
           => /\ Head(normalized) \notin WhiteSpace
              /\ normalized[Len(normalized)] \notin WhiteSpace
      /\ (Len(code) >= 4 /\ FenceAt(code) /\ code[4] \in LanguageTags)
           => normalized = cleanCode(SubSeq(code, 5, Len(code)))
      /\ \A tag \in LanguageTags, body \in FencedBodies :
           code = Fence \o <<tag, "\n">> \o body \o <<"\n">> \o Fence
             => normalized = body
      /\ code = Fence \o <<"html", "\n">> \o DivHi \o <<"\n">> \o Fence
           => normalized = DivHi /\ ~IsCompleteDocument(normalized)

\* the fenced '<div>hi</div>' is on show in the preview
C14_Witness ==
  /\ PreviewShown
  /\ app.generatedCode = Fence \o <<"html", "\n">> \o DivHi \o <<"\n">> \o Fence

\* a doctype in either spelling: the HTML syntax does not care about its case
HasDoctype(text) ==
  \/ includes(text, <<"<", "!DOCTYPE html>">>)
  \/ includes(text, <<"<", "!doctype html>">>)

\* C15: whatever the framework, cleaned code with a doctype or an opening
\* '<html' tag is the preview document as it is, nothing added.
C15_CompleteDocumentUnwrapped ==
  (PreviewShown
     /\ (HasDoctype(normalized) \/ includes(normalized, <<"<", "html">>)))
    => srcDoc = normalized

\* C15 for the one spelling of the doctype the code looks for
C15_DetectedDocumentUnwrapped ==
  (PreviewShown /\ IsCompleteDocument(normalized)) => srcDoc = normalized

\* doc holds the piece
Has(doc, piece) == \E i \in 1..Len(doc) : doc[i] = piece

\* what doc holds between two pieces of a shell
Between(doc, open, close) ==
  IF Has(doc, open) /\ Has(doc, close)
    THEN SubSeq(doc, (CHOOSE i \in 1..Len(doc) : doc[i] = open) + 1,
                     (CHOOSE i \in 1..Len(doc) : doc[i] = close) - 1)
    ELSE <<>>

\* the wrapping rules a document shows the marks of
RulesApplied(doc) ==
  {rule \in {"react", "vue", "tailwind", "plain"} :
     \/ /\ rule = "react"
        /\ \A i \in 1..Len(ReactScripts) : Has(doc, ReactScripts[i])
        /\ Has(doc, ReactMount)
        /\ Has(doc, ReactRender)
     \/ /\ rule = "vue"
        /\ Has(doc, VueScript)
        /\ Has(doc, VueMount)
     \/ /\ rule = "tailwind"
        /\ Has(doc, TailwindScript)
        /\ Between(doc, TailwindBodyOpen, BodyClose) = normalized
     \/ /\ rule = "plain"
        /\ Has(doc, PlainStyleOpen)}

\* C16: code that is no complete document gets exactly one wrapping rule:
\* the React shell for react, else the Vue shell for vue, else the Tailwind
\* shell with the code verbatim in the body for tailwind, else the plain
\* shell.
C16_OneWrappingRule ==
  (PreviewShown /\ ~IsCompleteDocument(normalized))
    => RulesApplied(srcDoc) =
         {IF app.framework \in {"react", "vue", "tailwind"}
            THEN app.framework ELSE "plain"}

\* a fragment is on show under the Tailwind radio button
C16_Witness ==
  /\ PreviewShown
  /\ ~IsCompleteDocument(normalized)
  /\ normalized # <<>>
  /\ app.framework = "tailwind"

\* the plain shell is what the preview shows
PlainRule ==
  /\ PreviewShown
  /\ ~IsCompleteDocument(normalized)
  /\ normalized # <<>>
  /\ app.framework \notin {"react", "vue", "tailwind"}

\* the body of the plain shell: the code as it is if it has markup, inside
\* a container div if not
PlainBody ==
  Between(srcDoc, PlainStyleClose, BodyClose) =
    IF includes(normalized, <<"<">>) THEN normalized
    ELSE <<ContainerOpen>> \o normalized \o <<ContainerClose>>

\* C20: in the plain shell the code is in the style block exactly when it
\* holds '{' and no '<style>' tag, and the body is the code in a div exactly
\* when the code has no angle-bracket markup, the code verbatim otherwise.
C20_PlainShellStyleAndBody ==
  PlainRule
    => /\ (Between(srcDoc, PlainStyleOpen, PlainStyleClose) = normalized)
            <=> (/\ includes(normalized, <<"{">>)
                 /\ ~includes(normalized, <<"<", "style>">>))
       /\ PlainBody

\* C20 with the closing tag in the place of the opening one
C20_PlainShellByClosingStyleTag ==
  PlainRule
    => /\ (Between(srcDoc, PlainStyleOpen, PlainStyleClose) = normalized)
            <=> (/\ includes(normalized, <<"{">>)
                 /\ ~includes(normalized, <<"<", "/style>">>))
       /\ PlainBody

\* code with an opening style tag, a brace and no closing style tag is on
\* show in the plain shell
C20_Witness ==
  /\ PlainRule
  /\ includes(normalized, <<"{">>)
  /\ includes(normalized, <<"<", "style>">>)
  /\ ~includes(normalized, <<"<", "/style>">>)

\* C17: the preview on show is the document of the last successful
\* result's code under that result's framework.
C17_PreviewFromLastResult ==
  PreviewShown
    => srcDoc = extractHTMLFromCode(lastResult.code, lastResult.framework)

\* the code half of C17: the code on show is the last successful result's
C17_PreviewOfLastCode ==
  PreviewShown => app.generatedCode = lastResult.code

\* ------------------------------------------- claims about the model loop

\* the calls of the log on a model in a mode
CallsOn(log, model, mode) ==
  {i \in 1..Len(log) : log[i].model = model /\ log[i].mode = mode}

\* C19: the provider calls of a request are a prefix of vision(m1),
\* text-only(m1), vision(m2), text-only(m2) over AVAILABLE_MODELS in order;
\* a call starts only after the one before it failed, so one call at most is
\* in flight; a model gets its text-only call exactly when its vision call
\* failed, and one call at most in each mode.
C19_CallSequence ==
  \A r \in Reqs :
    Gemini(r)
      => LET log == calls[r]
         IN  /\ Len(log) <= 2 * Len(AVAILABLE_MODELS)
             /\ \A i \in 1..Len(log) :
                  /\ log[i].model = AVAILABLE_MODELS[(i + 1) \div 2]
                  /\ log[i].mode = IF i % 2 = 1 THEN "vision" ELSE "text-only"
                  /\ i > 1 => Failed(log[i - 1])
             /\ Cardinality({i \in 1..Len(log) : log[i].outcome = Pending}) <= 1
             /\ \A k \in 1..Len(AVAILABLE_MODELS) :
                  LET model == AVAILABLE_MODELS[k]
                  IN  /\ (CallsOn(log, model, "text-only") # {})
                          <=> (\E i \in CallsOn(log, model, "vision") :
                                 Failed(log[i]))
                      /\ Cardinality(CallsOn(log, model, "vision")) <= 1
                      /\ Cardinality(CallsOn(log, model, "text-only")) <= 1

\* a request went through the whole list: four calls, the last one settled
C19_Witness ==
  \E r \in Reqs :
    /\ Gemini(r)
    /\ Len(calls[r]) = 2 * Len(AVAILABLE_MODELS)
    /\ calls[r][Len(calls[r])].outcome # Pending

\* ------------------------------------------------- concurrent requests

\* the requests of the concurrent runs: the Gemini server, an image it
\* admits, features that parse to a list or do not parse
ConcurrentRequests ==
  {[variant |-> "gemini",
    file |-> [fieldname |-> "image", mimetype |-> <<"image", "png">>, sizeMiB |-> 1,
              buffer |-> "bytes"],
    body |-> [framework |-> f, features |-> x]] :
     f \in {"html", "react"},
     x \in {JSONstringify(<<"responsive">>), <<"[", "responsive">>}}

\* the provider outcomes of the concurrent runs
ConcurrentOutcomes == {"ok", "error"}

ConcurrentReceive(r) ==
  /\ Receive(r)
  /\ request'[r] \in ConcurrentRequests

ConcurrentVisionReturns(r) ==
  /\ VisionReturns(r)
  /\ \A i \in 1..Len(calls'[r]) :
       calls'[r][i].outcome.kind \in ConcurrentOutcomes \cup {"pending"}

ConcurrentTextReturns(r) ==
  /\ TextReturns(r)
  /\ \A i \in 1..Len(calls'[r]) :
       calls'[r][i].outcome.kind \in ConcurrentOutcomes \cup {"pending"}

\* the steps of the requests interleaved in any order
ConcurrentNext ==
  \E r \in Reqs :
    \/ ConcurrentReceive(r)
    \/ UploadSingle(r)
    \/ GenerateCodeHandler(r)
    \/ ConcurrentVisionReturns(r)
    \/ ConcurrentTextReturns(r)

SpecConcurrent == Init /\ [][ConcurrentNext]_vars

\* all the server holds of a request
RequestState(r) ==
  <<request[r], pc[r], reqFile[r], locals[r], calls[r], responses[r]>>

\* C18: with the steps of several requests interleaved in any order, a step
\* of one request leaves all of another as it is, so a response comes from
\* the request's own inputs and the outcomes of its own calls.
C18_RequestsIndependent ==
  [][\A r, q \in Reqs :
       (r # q /\ RequestState(r)' # RequestState(r))
         => RequestState(q)' = RequestState(q)]_vars

\* ------------------------------------------- claims about the one response

\* upload.single passed r on to the handler, which has been entered
ReachedHandler(r) ==
  /\ pc[r] \notin {"idle", "upload"}
  /\ request[r].file = NoFile \/ MulterStorage(request[r].file).error = "none"

\* the handler of r has nothing left to do: it answered, its rejected promise
\* was dropped, or the process ended under it; no provider call is pending
HandlerOver(r) == pc[r] \in {"done", "hung", "aborted"}

\* C21: a request that reached the handler gets exactly one response once
\* its provider calls have settled: it is never answered twice and, the
\* handler being over, never left without a response, whatever its
\* framework, its features and the outcomes of its calls.
C21_ExactlyOneResponse ==
  \A r \in Reqs :
    (Gemini(r) /\ ReachedHandler(r))
      => /\ Len(responses[r]) <= 1
         /\ HandlerOver(r) => Len(responses[r]) = 1

\* C21 for the requests whose features field is JSON
C21_ParsableFeaturesAnsweredOnce ==
  \A r \in Reqs :
    (Gemini(r) /\ ReachedHandler(r) /\ ParsedFeatures(r).ok)
      => /\ Len(responses[r]) <= 1
         /\ pc[r] \notin {"hung", "aborted"}
         /\ pc[r] = "done" => Len(responses[r]) = 1

\* ------------------------------------------------ claims about the client

\* the generate-code requests that have not settled
GeneratesOutstanding == {o \in BagToSet(inflight) : o.op = "generate"}

\* C22: while a generate-code request is outstanding the loading flag is
\* set, and there is never more than one such request in flight, however
\* generateCode, testConnection and the completions interleave.
C22_LoadingWhileGenerating ==
  /\ GeneratesOutstanding # {} => app.loading
  /\ Cardinality(GeneratesOutstanding) <= 1
  /\ \A o \in GeneratesOutstanding : CopiesIn(o, inflight) = 1

\* C23: from clearAll until the user selects a file or starts a generation
\* the image and the generated code stay empty: a file read or a
\* generate-code request started before the clear does not fill them again
\* when it completes.
C23_ClearedStaysEmpty ==
  cleared => app.image = NoImage /\ app.generatedCode = <<>>

====
